---- MODULE Spec2Model ----
(***************************************************************************)
(* Live-tally subscription hook of PollPulse (useSignalR).                 *)
(*                                                                         *)
(* The repository holds two drafts of the hook:                            *)
(*   "hook"     src/src/hooks/useSignalR.ts                                *)
(*   "enhanced" src/unnamed/part_010 (isMountedRef, error, isLoading)      *)
(* Both are modelled; `draft` selects which one a behaviour runs.          *)
(*                                                                         *)
(* The SignalR HubConnection is the environment.  Of it the model keeps    *)
(* the connection state of every hub the hook has built and the callbacks  *)
(* the hook registered on it.  stop() moves a hub to Disconnecting at      *)
(* once; the close completes later.  A message that was already on its way *)
(* may still reach the ReceiveResults handler while the hub is             *)
(* Disconnecting.                                                          *)
(*                                                                         *)
(* SpecPage puts the results page (the consumer of the enhanced draft,     *)
(* with its auto-refresh interval) on top of the hook.  SpecFaults adds    *)
(* the failures of the environment the other behaviours leave out: a push  *)
(* payload that is not an array and a stop() that rejects.                 *)
(* SpecCall follows one call of methods.getResults of the enhanced draft,  *)
(* SpecVote the election (ballot) page, SpecAuth the AuthProvider.         *)
(***************************************************************************)
EXTENDS Integers, Sequences, FiniteSets, TLC

\* ------------------------------------------------------------------ bounds
MaxRuns == 2        \* runs of the subscription effect (the mount included)
MaxRapidRuns == 3   \* the same, when the watched election changes rapidly
MaxPush == 2        \* ReceiveResults messages delivered in a behaviour
MaxDrops == 1       \* transport drops in a behaviour
MaxPageRuns == 3    \* runs of the effect under the results page
MaxPoll == 2        \* ticks of the auto-refresh interval in a behaviour
MaxCast == 3        \* castVote requests the election page issues
MaxCalls == 2       \* calls of methods.getResults in a behaviour
MaxLogins == 3      \* calls of login in a behaviour

Runs == 1..(IF MaxRuns > MaxRapidRuns /\ MaxRuns > MaxPageRuns THEN MaxRuns
            ELSE IF MaxRapidRuns > MaxPageRuns THEN MaxRapidRuns
            ELSE MaxPageRuns)
Drafts == {"hook", "enhanced"}
Elections == {1, 2}

\* ------------------------------------------------------------ result sets
\* A VoteResult keeps the fields the hook and the display read.  percentage
\* is in hundredths of a percent (8333 is 83.33).
VoteResult(c, n, pct) == [candidateId |-> c, voteCount |-> n, percentage |-> pct]

\* What the server may send for an election, by HTTP or as a push.  The
\* second set of election 1 carries new counts with the percentages of the
\* first; the second set of election 2 carries counts only.
ServerResults(e) ==
  IF e = 1
    THEN { << VoteResult(1, 3, 7500), VoteResult(2, 1, 2500) >>,
           << VoteResult(1, 5, 7500), VoteResult(2, 1, 2500) >> }
    ELSE { << VoteResult(3, 0, 0), VoteResult(4, 0, 0) >>,
           << VoteResult(3, 2, 0), VoteResult(4, 2, 0) >> }

AllResults == ServerResults(1) \cup ServerResults(2)

\* The election a non-empty result set belongs to.
ElectionOf(rs) == IF rs[1].candidateId \in {1, 2} THEN 1 ELSE 2

\* ---------------------------------------------------------------- display
\* Array.prototype.sort with (a, b) => b.votes - a.votes: stable, by votes
\* descending.
RECURSIVE InsertByVotes(_, _)
InsertByVotes(x, sorted) ==
  IF sorted = << >> THEN << x >>
  ELSE IF Head(sorted).votes >= x.votes
    THEN << Head(sorted) >> \o InsertByVotes(x, Tail(sorted))
    ELSE << x >> \o sorted

RECURSIVE SortByVotes(_)
SortByVotes(xs) ==
  IF xs = << >> THEN << >>
  ELSE InsertByVotes(xs[Len(xs)], SortByVotes(SubSeq(xs, 1, Len(xs) - 1)))

\* chartData of ResultsDisplay: the name is the candidate's.
ChartData(results) ==
  SortByVotes([i \in 1..Len(results) |->
                 [name |-> results[i].candidateId,
                  votes |-> results[i].voteCount,
                  percentage |-> results[i].percentage]])

\* totalVotes of ResultsDisplay.
RECURSIVE TotalVotes(_)
TotalVotes(results) ==
  IF results = << >> THEN 0
  ELSE Head(results).voteCount + TotalVotes(Tail(results))

\* ------------------------------------------------------------------ state
VARIABLES
  draft,         \* which draft of the hook runs
  props,         \* [electionId, token, isElectionActive] of the last render
  mounted,       \* the consuming component is mounted
  runs,          \* effect runs so far; run r built subscription r
  subs,          \* per effect run: the snapshot fetch and the hub it built
  connectionRef, \* connectionRef.current: a run's hub, or 0 for null
  isMountedRef,  \* isMountedRef.current (enhanced draft)
  hasCleanup,    \* the last effect run returned a cleanup function
  view,          \* what the hook returns: results, status, pulse, error
  timers,        \* pending pulse timeouts, per hub whose push set them
  pushes,        \* ReceiveResults messages delivered so far
  drops,         \* transport drops so far
  lastPush,      \* the payload of the last ReceiveResults message (history)
  rapid,         \* election ids of the latest runs, each superseding an
                 \* open that was still in flight (history)
  page,          \* state of the results page that consumes the hook
  unhandled,     \* a rejected promise reached no handler (unhandledrejection)
  call,          \* the consumer's call of methods.getResults (enhanced draft)
  ballot,        \* state of the election page and its castVote requests
  auth           \* state of AuthProvider and its getProfile requests

vars == << draft, props, mounted, runs, subs, connectionRef, isMountedRef,
           hasCleanup, view, timers, pushes, drops, lastPush, rapid,
           page, unhandled, call, ballot, auth >>

NoSub == [eid |-> 0, fetch |-> "none", state |-> "None", started |-> FALSE,
          pc |-> "idle", origin |-> "none", setup |-> {}]

PropsSet == [electionId : Elections, token : BOOLEAN, isElectionActive : BOOLEAN]

\* State of ResultsPage after its first render: no election loaded yet.
\* pending counts the getElectionById calls in flight, ticks the interval
\* ticks so far.
PageInit == [election |-> "null", loading |-> TRUE, initialFetchError |-> FALSE,
             pending |-> 0, ticks |-> 0]

\* The subscription is current: its effect run is the latest one and the
\* consumer has not been torn down.
IsCurrent(r) == r = runs /\ mounted

\* ------------------------------------------------ HubConnection (library)
\* HubConnection.stop(): nothing to do on a closed or closing hub; any other
\* hub is Disconnecting as soon as stop() is called.
HubStopNever(s) == s

HubStop(s) ==
  IF s.state \in {"None", "Disconnected", "Disconnecting"}
    THEN s
    ELSE [s EXCEPT !.state = "Disconnecting"]

\* start() has been called and its promise is not settled yet.
StartPending(s) ==
  \/ s.state = "Connecting"
  \/ s.state = "Disconnecting" /\ ~s.started

\* The hub counts as a live handle.
Active(s) == s.state \in {"Connecting", "Connected", "Reconnecting"}

\* Messages reach the registered handlers while the transport is up: on a
\* connected hub, and on a hub whose stop() has not completed yet.
CanReceive(s) ==
  \/ s.state = "Connected"
  \/ s.state = "Disconnecting" /\ s.started

\* ------------------------------------------------------- status mapping
\* stateMap of the hook draft: connecting is exposed as it is.
StateMap(state) ==
  CASE state = "Connecting" -> "connecting"
    [] state = "Connected" -> "connected"
    [] state = "Reconnecting" -> "reconnecting"
    [] state = "Disconnected" -> "disconnected"
    [] state = "Disconnecting" -> "disconnected"

\* mapHubState of the enhanced draft.
MapHubState(state) ==
  CASE state = "Connecting" -> "connecting"
    [] state = "Connected" -> "connected"
    [] state = "Reconnecting" -> "reconnecting"
    [] OTHER -> "disconnected"

\* updateStatus of the hook draft reads the state of the hub it closes over.
UpdateStatusHook(v, state) == [v EXCEPT !.connectionStatus = StateMap(state)]

\* updateStatus of the enhanced draft: m is isMountedRef.current.
UpdateStatus(v, m, state, pulsing) ==
  IF ~m
    THEN v
    ELSE [v EXCEPT
            !.connectionStatus =
               IF MapHubState(state) = "connecting"
                 THEN "disconnected" ELSE MapHubState(state),
            !.isPulsing = pulsing]

HandleError(v, m, context) ==
  IF ~m THEN v ELSE [v EXCEPT !.error = context, !.isLoading = FALSE]

ClearError(v, m) == IF ~m THEN v ELSE [v EXCEPT !.error = "null"]

\* React drops a state update of a component that is no longer mounted.
SetView(v) == view' = IF mounted THEN v ELSE view

\* No call of methods.getResults has been made.  token and eid are the
\* token of the closure and the argument; hub is connectionRef.current at
\* the call and conn whether it was connected then; http: the HTTP
\* fallback was tried; live: the returned value came from the hub.
CallInit == [pc |-> "idle", token |-> FALSE, eid |-> 0, hub |-> 0,
             conn |-> FALSE, http |-> FALSE, live |-> FALSE, ret |-> << >>,
             calls |-> 0]

\* ElectionPage after its first render.  issued, inFlight and succeeded
\* count the castVote requests.
BallotInit == [pc |-> "start", authed |-> FALSE, election |-> "null",
               loading |-> TRUE, error |-> FALSE, hasVoted |-> FALSE,
               isVoting |-> FALSE, selected |-> 0, nav |-> "here",
               issued |-> 0, inFlight |-> 0, succeeded |-> 0]

\* AuthProvider after its first render.  0 stands for null; stored is the
\* token in sessionStorage; pending holds the tokens of the getProfile
\* requests in flight.
AuthInit == [pc |-> "start", user |-> 0, token |-> 0, isLoading |-> TRUE,
             stored |-> 0, pending |-> {}, logins |-> 0]

\* ----------------------------------------------------------------- Init
Init ==
  /\ draft \in Drafts
  /\ props \in PropsSet
  /\ mounted = TRUE
  /\ runs = 0
  /\ subs = [r \in Runs |-> NoSub]
  /\ connectionRef = 0
  /\ isMountedRef = TRUE
  /\ hasCleanup = FALSE
  /\ view = [results |-> << >>,
             connectionStatus |->
               IF draft = "hook" THEN "connecting" ELSE "disconnected",
             isPulsing |-> FALSE,
             error |-> "null",
             isLoading |-> FALSE]
  /\ timers = [h \in Runs |-> 0]
  /\ pushes = 0
  /\ drops = 0
  /\ lastPush = << >>
  /\ rapid = << >>
  /\ page = PageInit
  /\ unhandled = FALSE
  /\ call = CallInit
  /\ ballot = BallotInit
  /\ auth = AuthInit

\* ----------------------------------------------------- the effect and cleanup
\* Both drafts return early without a token (the election id is always a
\* valid number here, and isElectionActive is always defined).
HasCredentialsAlways(p) == TRUE

HasCredentialsNever(p) == FALSE

HasCredentials(p) == p.token

NeedsConnectionAlways(p) == TRUE

\* A connection is built only for an active election.
NeedsConnection(p) == p.isElectionActive

\* The cleanup function of an effect run that returned one: stop the hub in
\* connectionRef.  The enhanced draft also clears the pending pulse timeouts.
CleanupSubsSkipped == subs

CleanupSubs ==
  IF hasCleanup /\ connectionRef # 0
    THEN [subs EXCEPT ![connectionRef] = HubStop(@)]
    ELSE subs

CleanupTimers ==
  IF hasCleanup /\ draft = "enhanced" THEN [h \in Runs |-> 0] ELSE timers

\* The previous open was still in flight when it was superseded.
OpenInFlight ==
  hasCleanup /\ connectionRef # 0 /\ subs[connectionRef].state = "Connecting"

\* The view after the synchronous part of the effect body.
EffectViewHook(v, p) ==
  IF ~HasCredentials(p) \/ ~NeedsConnection(p)
    THEN [v EXCEPT !.connectionStatus = "disconnected"]
    ELSE v

EffectViewEnhanced(v, p) ==
  IF ~HasCredentials(p)
    THEN UpdateStatus(v, TRUE, "Disconnected", FALSE)
    ELSE LET v1 == [ClearError(v, TRUE) EXCEPT !.isLoading = TRUE]
         IN IF ~NeedsConnection(p)
              THEN UpdateStatus(v1, TRUE, "Disconnected", FALSE)
              ELSE UpdateStatus(v1, TRUE, "Connecting", FALSE)

\* One run of the subscription effect with props p: the cleanup of the
\* previous run, then the effect body up to its first await.
Effect(p) ==
  LET r == runs + 1
      build == HasCredentials(p) /\ NeedsConnection(p)
  IN /\ props' = p
     /\ runs' = r
     /\ subs' = [CleanupSubs EXCEPT ![r] =
                   [NoSub EXCEPT
                      !.eid = p.electionId,
                      !.fetch = IF HasCredentials(p) THEN "pending" ELSE "none",
                      !.state = IF build THEN "Connecting" ELSE "None"]]
     /\ connectionRef' = IF build THEN r
                         ELSE IF hasCleanup THEN 0 ELSE connectionRef
     /\ isMountedRef' = TRUE
     /\ hasCleanup' = build
     /\ timers' = CleanupTimers
     /\ SetView(IF draft = "hook" THEN EffectViewHook(view, p)
                                  ELSE EffectViewEnhanced(view, p))
     /\ rapid' = IF ~build THEN << >>
                 ELSE IF OpenInFlight THEN Append(rapid, p.electionId)
                 ELSE << p.electionId >>
     /\ UNCHANGED << draft, mounted, pushes, drops, lastPush, unhandled,
                     call, ballot, auth >>

\* First run of the effect, after the first render.
Mount ==
  /\ runs = 0
  /\ mounted
  /\ Effect(props)
  /\ UNCHANGED page

\* electionId, token or isElectionActive changed: cleanup, then the effect.
Rerun(p) ==
  /\ runs >= 1
  /\ runs < MaxRuns
  /\ mounted
  /\ p # props
  /\ Effect(p)
  /\ UNCHANGED page

\* The user moves on to another election while the open of the previous one
\* is still in flight.
RapidChange(e) ==
  /\ runs >= 1
  /\ runs < MaxRapidRuns
  /\ mounted
  /\ OpenInFlight
  /\ e # props.electionId
  /\ Effect([props EXCEPT !.electionId = e])
  /\ UNCHANGED page

\* The consumer unmounts: the cleanup runs and nothing is set up again.
Unmount ==
  /\ runs >= 1
  /\ mounted
  /\ mounted' = FALSE
  /\ subs' = CleanupSubs
  /\ timers' = CleanupTimers
  /\ connectionRef' = IF hasCleanup THEN 0 ELSE connectionRef
  /\ isMountedRef' = IF draft = "enhanced" THEN FALSE ELSE isMountedRef
  /\ hasCleanup' = FALSE
  /\ UNCHANGED << draft, props, runs, view, pushes, drops, lastPush, rapid,
                  page, unhandled, call, ballot, auth >>

\* ------------------------------------------------------ snapshot fetch
\* fetchInitialResults after getElectionResults resolved with data.
FetchedHook(v, data) == [v EXCEPT !.results = data]

FetchedEnhanced(v, m, data) ==
  IF m THEN [v EXCEPT !.results = data, !.isLoading = FALSE] ELSE v

FetchResolves(r, data) ==
  /\ subs[r].fetch = "pending"
  /\ data \in ServerResults(subs[r].eid)
  /\ subs' = [subs EXCEPT ![r].fetch = "done"]
  /\ SetView(IF draft = "hook" THEN FetchedHook(view, data)
                               ELSE FetchedEnhanced(view, isMountedRef, data))
  /\ UNCHANGED << draft, props, mounted, runs, connectionRef, isMountedRef,
                  hasCleanup, timers, pushes, drops, lastPush, rapid,
                  page, unhandled, call, ballot, auth >>

\* getElectionResults rejected: the hook draft only logs.
FetchRejects(r) ==
  /\ subs[r].fetch = "pending"
  /\ subs' = [subs EXCEPT ![r].fetch = "failed"]
  /\ SetView(IF draft = "hook" THEN view
             ELSE HandleError(view, isMountedRef, "Initial Data Fetch"))
  /\ UNCHANGED << draft, props, mounted, runs, connectionRef, isMountedRef,
                  hasCleanup, timers, pushes, drops, lastPush, rapid,
                  page, unhandled, call, ballot, auth >>

\* --------------------------------------------- awaited invokes (enhanced)
\* The catch block an awaited invoke of the enhanced draft rejects into.
InvokeCatch(v, m, origin) ==
  IF origin = "start"
    THEN UpdateStatus(HandleError(v, m, "Connection Start"), m,
                      "Disconnected", FALSE)
    ELSE HandleError(v, m, "Reconnection Setup")

\* The hub left the Connected state: the library rejects the pending invoke.
CancelInvoke(v, m, s) == IF s.pc = "idle" THEN v ELSE InvokeCatch(v, m, s.origin)

Idle(s) == [s EXCEPT !.pc = "idle"]

\* The awaited invoke resolved: after JoinElectionGroup the draft invokes
\* GetLiveResults, which fails at once on a hub that is not Connected.
InvokeResolves(h) ==
  /\ draft = "enhanced"
  /\ subs[h].pc # "idle"
  /\ CanReceive(subs[h])
  /\ IF subs[h].pc = "join"
       THEN IF subs[h].state = "Connected"
              THEN /\ subs' = [subs EXCEPT ![h].pc = "get",
                                           ![h].setup = @ \cup {"Get"}]
                   /\ view' = view
              ELSE /\ subs' = [subs EXCEPT ![h] = Idle(@)]
                   /\ SetView(InvokeCatch(view, isMountedRef, subs[h].origin))
       ELSE /\ subs' = [subs EXCEPT ![h] = Idle(@)]
            /\ view' = view
  /\ UNCHANGED << draft, props, mounted, runs, connectionRef, isMountedRef,
                  hasCleanup, timers, pushes, drops, lastPush, rapid,
                  page, unhandled, call, ballot, auth >>

InvokeRejects(h) ==
  /\ draft = "enhanced"
  /\ subs[h].pc # "idle"
  /\ CanReceive(subs[h])
  /\ subs' = [subs EXCEPT ![h] = Idle(@)]
  /\ SetView(InvokeCatch(view, isMountedRef, subs[h].origin))
  /\ UNCHANGED << draft, props, mounted, runs, connectionRef, isMountedRef,
                  hasCleanup, timers, pushes, drops, lastPush, rapid,
                  page, unhandled, call, ballot, auth >>

\* ------------------------------------------------------------ connection
\* The hook draft invokes both hub methods without awaiting either; the
\* enhanced draft awaits JoinElectionGroup first.
SetupHook(s, origin) == [s EXCEPT !.setup = {"Join", "Get"}, !.origin = origin]

SetupEnhanced(s, origin) ==
  [s EXCEPT !.setup = {"Join"}, !.pc = "join", !.origin = origin]

\* start() resolved.
StartResolves(h) ==
  /\ subs[h].state = "Connecting"
  /\ LET s == [subs[h] EXCEPT !.state = "Connected", !.started = TRUE]
     IN IF draft = "hook"
          THEN /\ subs' = [subs EXCEPT ![h] = SetupHook(s, "start")]
               /\ SetView(UpdateStatusHook(view, "Connected"))
          ELSE IF ~isMountedRef
            THEN /\ subs' = [subs EXCEPT ![h] = s]
                 /\ view' = view
            ELSE /\ subs' = [subs EXCEPT ![h] = SetupEnhanced(s, "start")]
                 /\ SetView(ClearError(
                      UpdateStatus(view, TRUE, "Connected", FALSE), TRUE))
  /\ UNCHANGED << draft, props, mounted, runs, connectionRef, isMountedRef,
                  hasCleanup, timers, pushes, drops, lastPush, rapid,
                  page, unhandled, call, ballot, auth >>

\* start() rejected: the connection failed, or stop() was called meanwhile.
StartRejects(h) ==
  /\ StartPending(subs[h])
  /\ subs' = [subs EXCEPT ![h].state = "Disconnected"]
  /\ SetView(IF draft = "hook"
               THEN UpdateStatusHook(view, "Disconnected")
               ELSE InvokeCatch(view, isMountedRef, "start"))
  /\ UNCHANGED << draft, props, mounted, runs, connectionRef, isMountedRef,
                  hasCleanup, timers, pushes, drops, lastPush, rapid,
                  page, unhandled, call, ballot, auth >>

\* handleReconnecting of the enhanced draft.
ReconnectingEnhanced(v, m, err) ==
  LET v1 == UpdateStatus(v, m, "Reconnecting", FALSE)
  IN IF err THEN HandleError(v1, m, "Reconnecting") ELSE v1

\* The transport dropped: the hub is Reconnecting and onreconnecting runs.
TransportDrop(h, err) ==
  /\ subs[h].state = "Connected"
  /\ drops < MaxDrops
  /\ drops' = drops + 1
  /\ subs' = [subs EXCEPT ![h] =
                Idle([@ EXCEPT !.state = "Reconnecting", !.setup = {}])]
  /\ SetView(IF draft = "hook"
               THEN UpdateStatusHook(view, "Reconnecting")
               ELSE CancelInvoke(ReconnectingEnhanced(view, isMountedRef, err),
                                 isMountedRef, subs[h]))
  /\ UNCHANGED << draft, props, mounted, runs, connectionRef, isMountedRef,
                  hasCleanup, timers, pushes, lastPush, rapid,
                  page, unhandled, call, ballot, auth >>

\* The automatic reconnect succeeded: onreconnected runs.
Reconnected(h) ==
  /\ subs[h].state = "Reconnecting"
  /\ LET s == [subs[h] EXCEPT !.state = "Connected"]
     IN IF draft = "hook"
          THEN /\ subs' = [subs EXCEPT ![h] = SetupHook(s, "reconnect")]
               /\ SetView(UpdateStatusHook(view, "Connected"))
          ELSE IF ~isMountedRef
            THEN /\ subs' = [subs EXCEPT ![h] = s]
                 /\ view' = view
            ELSE /\ subs' = [subs EXCEPT ![h] = SetupEnhanced(s, "reconnect")]
                 /\ SetView(ClearError(
                      UpdateStatus(view, TRUE, "Connected", FALSE), TRUE))
  /\ UNCHANGED << draft, props, mounted, runs, connectionRef, isMountedRef,
                  hasCleanup, timers, pushes, drops, lastPush, rapid,
                  page, unhandled, call, ballot, auth >>

\* handleConnectionClosed of the enhanced draft.
ClosedEnhanced(v, m, err) ==
  LET v1 == UpdateStatus(v, m, "Disconnected", FALSE)
  IN IF err THEN HandleError(v1, m, "Connection Closed") ELSE v1

Closed(h, err) ==
  /\ subs' = [subs EXCEPT ![h] = Idle([@ EXCEPT !.state = "Disconnected"])]
  /\ SetView(IF draft = "hook"
               THEN UpdateStatusHook(view, "Disconnected")
               ELSE CancelInvoke(ClosedEnhanced(view, isMountedRef, err),
                                 isMountedRef, subs[h]))
  /\ UNCHANGED << draft, props, mounted, runs, connectionRef, isMountedRef,
                  hasCleanup, timers, pushes, drops, lastPush, rapid,
                  page, unhandled, call, ballot, auth >>

\* The reconnect attempts ran out: the hub closes with an error.
ReconnectFails(h) ==
  /\ subs[h].state = "Reconnecting"
  /\ Closed(h, TRUE)

\* stop() completed on a hub that had been connected: onclose runs.
StopCompletes(h) ==
  /\ subs[h].state = "Disconnecting"
  /\ subs[h].started
  /\ Closed(h, FALSE)

\* ------------------------------------------------------------------ push
ReceiveResultsMerge(v, data) ==
  [v EXCEPT !.results = IF v.results = << >> THEN data
                        ELSE << data[1] >> \o Tail(v.results),
            !.isPulsing = TRUE]

\* The ReceiveResults handler of the hook draft.
ReceiveResultsHook(v, data) == [v EXCEPT !.results = data, !.isPulsing = TRUE]

\* handleReceiveResults of the enhanced draft (data is an array).
ReceiveResultsEnhanced(v, m, state, data) ==
  IF ~m THEN v
  ELSE UpdateStatus(ClearError([v EXCEPT !.results = data], m), m, state, TRUE)

\* The handler sets a pulse timeout unless it returned early.
SetsPulseTimeout == draft = "hook" \/ isMountedRef

Push(h, data) ==
  /\ CanReceive(subs[h])
  /\ pushes < MaxPush
  /\ data \in ServerResults(subs[h].eid)
  /\ pushes' = pushes + 1
  /\ lastPush' = data
  /\ SetView(IF draft = "hook"
               THEN ReceiveResultsHook(view, data)
               ELSE ReceiveResultsEnhanced(view, isMountedRef,
                                           subs[h].state, data))
  /\ timers' = IF SetsPulseTimeout THEN [timers EXCEPT ![h] = @ + 1] ELSE timers
  /\ UNCHANGED << draft, props, mounted, runs, subs, connectionRef,
                  isMountedRef, hasCleanup, drops, rapid,
                  page, unhandled, call, ballot, auth >>

\* A pulse timeout fires.
PulseElapsedHook(v) == [v EXCEPT !.isPulsing = FALSE]

PulseElapsedEnhanced(v, m, state) == UpdateStatus(v, m, state, FALSE)

PulseTimeout(h) ==
  /\ timers[h] > 0
  /\ timers' = [timers EXCEPT ![h] = @ - 1]
  /\ SetView(IF draft = "hook"
               THEN PulseElapsedHook(view)
               ELSE PulseElapsedEnhanced(view, isMountedRef, subs[h].state))
  /\ UNCHANGED << draft, props, mounted, runs, subs, connectionRef,
                  isMountedRef, hasCleanup, pushes, drops, lastPush, rapid,
                  page, unhandled, call, ballot, auth >>

\* ------------------------------------------------------------------ Next
Environment ==
  \/ \E r \in Runs : \E data \in AllResults : FetchResolves(r, data)
  \/ \E r \in Runs : FetchRejects(r)
  \/ \E h \in Runs : StartResolves(h)
  \/ \E h \in Runs : StartRejects(h)
  \/ \E h \in Runs : InvokeResolves(h)
  \/ \E h \in Runs : InvokeRejects(h)
  \/ \E h \in Runs : \E err \in BOOLEAN : TransportDrop(h, err)
  \/ \E h \in Runs : Reconnected(h)
  \/ \E h \in Runs : ReconnectFails(h)
  \/ \E h \in Runs : StopCompletes(h)
  \/ \E h \in Runs : \E data \in AllResults : Push(h, data)
  \/ \E h \in Runs : PulseTimeout(h)

Next ==
  \/ Mount
  \/ \E p \in PropsSet : Rerun(p)
  \/ Unmount
  \/ Environment

Spec == Init /\ [][Next]_vars

\* The consumer watches active elections with a token and moves between
\* them before the previous open has completed.
InitRapid == Init /\ props.token /\ props.isElectionActive

NextRapid ==
  \/ Mount
  \/ \E e \in Elections : RapidChange(e)
  \/ Unmount
  \/ Environment

SpecRapid == InitRapid /\ [][NextRapid]_vars

\* ------------------------------------------------------------ results page
\* ResultsPage consumes the enhanced draft: useSignalR(electionId, token,
\* election?.isActive || false).  The token is present and authLoading is
\* over.
hookVars == << draft, props, mounted, runs, subs, connectionRef, isMountedRef,
               hasCleanup, view, timers, pushes, drops, lastPush, rapid,
               unhandled >>

\* The props the page hands to the hook when its state is pg.
PropsOf(pg) == [props EXCEPT !.isElectionActive = (pg.election = "active")]

\* fetchInitialData up to its await: it asks for the election, not for
\* its results.
FetchInitialData(pg) ==
  [pg EXCEPT !.loading = TRUE, !.initialFetchError = FALSE, !.pending = @ + 1]

\* First commit of the page: the hook's effect and the initial data fetch.
PageMount ==
  /\ runs = 0
  /\ mounted
  /\ Effect(props)
  /\ page' = FetchInitialData(page)

\* getElectionById resolved: setElection, and the hook's effect runs again
\* when election.isActive changed.
ElectionResolves(active) ==
  /\ page.pending > 0
  /\ LET pg == [page EXCEPT !.election = IF active THEN "active" ELSE "inactive",
                            !.loading = FALSE,
                            !.pending = @ - 1]
     IN IF ~mounted
          THEN /\ page' = [page EXCEPT !.pending = @ - 1]
               /\ UNCHANGED hookVars
          ELSE /\ page' = pg
               /\ IF PropsOf(pg) # props
                    THEN runs < MaxPageRuns /\ Effect(PropsOf(pg))
                    ELSE UNCHANGED hookVars
  /\ UNCHANGED << call, ballot, auth >>

\* getElectionById rejected.
ElectionRejects ==
  /\ page.pending > 0
  /\ page' = IF mounted
               THEN [page EXCEPT !.initialFetchError = TRUE, !.loading = FALSE,
                                 !.pending = @ - 1]
               ELSE [page EXCEPT !.pending = @ - 1]
  /\ UNCHANGED hookVars
  /\ UNCHANGED << call, ballot, auth >>

\* The auto-refresh effect keeps an interval while the election is active
\* and the exposed status is not connected.
IntervalArmed ==
  /\ mounted
  /\ page.election = "active"
  /\ view.connectionStatus # "connected"

\* AUTO_REFRESH_INTERVAL elapsed: the interval callback runs.
PollTick ==
  /\ IntervalArmed
  /\ page.ticks < MaxPoll
  /\ page' = [FetchInitialData(page) EXCEPT !.ticks = @ + 1]
  /\ UNCHANGED hookVars
  /\ UNCHANGED << call, ballot, auth >>

InitPage ==
  /\ Init
  /\ draft = "enhanced"
  /\ props = [electionId |-> 1, token |-> TRUE, isElectionActive |-> FALSE]

NextPage ==
  \/ PageMount
  \/ \E active \in BOOLEAN : ElectionResolves(active)
  \/ ElectionRejects
  \/ PollTick
  \/ Unmount
  \/ Environment

SpecPage == InitPage /\ [][NextPage]_vars

\* ------------------------------------------------- methods.getResults
notCall == << draft, props, mounted, runs, subs, connectionRef, isMountedRef,
              hasCleanup, timers, pushes, drops, lastPush, rapid, unhandled,
              page, ballot, auth >>

FallbackSkipped(c) == [c EXCEPT !.pc = "returned", !.ret = << >>]

\* The HTTP fallback of getResults: getElectionResults with a token, an
\* empty list without one.
Fallback(c) ==
  IF c.token
    THEN [c EXCEPT !.pc = "http", !.http = TRUE]
    ELSE [c EXCEPT !.pc = "returned", !.ret = << >>]

\* The consumer calls methods.getResults(electionId): without a hub the
\* fallback, with one clearError() and invoke("GetLiveResults").
GetResultsCall ==
  /\ draft = "enhanced"
  /\ mounted
  /\ runs >= 1
  /\ call.pc \in {"idle", "returned"}
  /\ call.calls < MaxCalls
  /\ LET c == [CallInit EXCEPT !.token = props.token,
                               !.eid = props.electionId,
                               !.hub = connectionRef,
                               !.conn = (connectionRef # 0 /\
                                         subs[connectionRef].state = "Connected"),
                               !.calls = call.calls + 1]
     IN IF connectionRef = 0
          THEN /\ call' = Fallback(c)
               /\ view' = view
          ELSE /\ call' = [c EXCEPT !.pc = "invoke"]
               /\ SetView(ClearError(view, isMountedRef))
  /\ UNCHANGED notCall

\* invoke("GetLiveResults") resolved, which takes a hub that was connected
\* when it was called: fresh || [].
CallInvokeResolves(data) ==
  /\ call.pc = "invoke"
  /\ call.conn
  /\ CanReceive(subs[call.hub])
  /\ data \in ServerResults(call.eid) \cup {<< >>}
  /\ call' = [call EXCEPT !.pc = "returned", !.live = TRUE, !.ret = data]
  /\ UNCHANGED view
  /\ UNCHANGED notCall

\* invoke("GetLiveResults") rejected (at once on a hub that is not
\* connected): handleError, then the fallback.
CallInvokeRejects ==
  /\ call.pc = "invoke"
  /\ call' = Fallback(call)
  /\ SetView(HandleError(view, isMountedRef, "Get Results"))
  /\ UNCHANGED notCall

\* getElectionResults of the fallback resolved.
CallHttpResolves(data) ==
  /\ call.pc = "http"
  /\ data \in ServerResults(call.eid)
  /\ call' = [call EXCEPT !.pc = "returned", !.ret = data]
  /\ UNCHANGED view
  /\ UNCHANGED notCall

\* getElectionResults of the fallback rejected: handleError, empty list.
CallHttpRejects ==
  /\ call.pc = "http"
  /\ call' = [call EXCEPT !.pc = "returned", !.ret = << >>]
  /\ SetView(HandleError(view, isMountedRef, "Get Results Fallback"))
  /\ UNCHANGED notCall

InitCall == Init /\ draft = "enhanced"

NextCall ==
  \/ Mount
  \/ Unmount
  \/ Environment
  \/ GetResultsCall
  \/ \E data \in AllResults \cup {<< >>} : CallInvokeResolves(data)
  \/ CallInvokeRejects
  \/ \E data \in AllResults : CallHttpResolves(data)
  \/ CallHttpRejects

SpecCall == InitCall /\ [][NextCall]_vars

\* ---------------------------------------------------------- election page
\* ElectionPage once AuthProvider has finished loading.  ballot.authed is
\* isAuthenticated (a token is present); Candidates are the candidates of
\* the election.
Candidates == {1, 2, 3}

notBallot == << hookVars, page, call, auth >>

\* The effect runs: fetchElectionData starts with getElectionById.
BallotMount(authed) ==
  /\ ballot.pc = "start"
  /\ ballot' = [ballot EXCEPT !.pc = "election", !.authed = authed]
  /\ UNCHANGED notBallot

\* getElectionById resolved; an authenticated user's vote status is asked
\* for next.  active is isElectionActive as the page computes it.
BallotElectionResolves(active) ==
  /\ ballot.pc = "election"
  /\ ballot' = IF ballot.authed
                 THEN [ballot EXCEPT !.pc = "status",
                         !.election = IF active THEN "active" ELSE "inactive"]
                 ELSE [ballot EXCEPT !.pc = "done", !.loading = FALSE,
                         !.election = IF active THEN "active" ELSE "inactive"]
  /\ UNCHANGED notBallot

\* checkVoteStatus resolved.
BallotStatusResolves(voted) ==
  /\ ballot.pc = "status"
  /\ ballot' = [ballot EXCEPT !.pc = "done", !.hasVoted = voted,
                              !.loading = FALSE]
  /\ UNCHANGED notBallot

\* getElectionById or checkVoteStatus rejected.
BallotFetchRejects ==
  /\ ballot.pc \in {"election", "status"}
  /\ ballot' = [ballot EXCEPT !.pc = "done", !.error = TRUE, !.loading = FALSE]
  /\ UNCHANGED notBallot

\* The page renders the election (not the spinner, not the error view) and
\* has not been left.
ControlsShown ==
  /\ ~ballot.loading
  /\ ~ballot.error
  /\ ballot.election # "null"
  /\ ballot.nav # "left"

\* The RadioGroup is enabled.
RadioEnabled ==
  ~(ballot.hasVoted \/ ballot.election # "active" \/ ~ballot.authed
      \/ ballot.isVoting)

VoteButtonShownAlways == TRUE

\* The vote button is rendered.
VoteButtonShown ==
  ballot.election = "active" /\ ~ballot.hasVoted /\ ballot.authed

\* The vote button is not disabled.
VoteButtonEnabled == ballot.selected # 0 /\ ~ballot.isVoting

\* The user picks a candidate.
Select(c) ==
  /\ ControlsShown
  /\ RadioEnabled
  /\ ballot.selected # c
  /\ ballot' = [ballot EXCEPT !.selected = c]
  /\ UNCHANGED notBallot

\* The user clicks the vote button: handleVote up to await castVote.
HandleVote ==
  /\ ControlsShown
  /\ VoteButtonShown
  /\ VoteButtonEnabled
  /\ ballot.selected # 0 /\ ballot.election # "null" /\ ballot.authed
  /\ ballot.issued < MaxCast
  /\ ballot' = [ballot EXCEPT !.isVoting = TRUE, !.issued = @ + 1,
                              !.inFlight = @ + 1]
  /\ UNCHANGED notBallot

\* castVote resolved: setHasVoted(true) and router.push to the results.
CastResolves ==
  /\ ballot.inFlight > 0
  /\ ballot' = IF ballot.nav = "left"
                 THEN [ballot EXCEPT !.inFlight = @ - 1, !.succeeded = @ + 1]
                 ELSE [ballot EXCEPT !.inFlight = @ - 1, !.succeeded = @ + 1,
                         !.hasVoted = TRUE, !.isVoting = FALSE,
                         !.nav = "pushed"]
  /\ UNCHANGED notBallot

\* castVote rejected: an alert, and the button is enabled again.
CastRejects ==
  /\ ballot.inFlight > 0
  /\ ballot' = IF ballot.nav = "left"
                 THEN [ballot EXCEPT !.inFlight = @ - 1]
                 ELSE [ballot EXCEPT !.inFlight = @ - 1, !.isVoting = FALSE]
  /\ UNCHANGED notBallot

\* The page is left: the navigation router.push started completes, or the
\* user goes elsewhere.
BallotLeave ==
  /\ ballot.pc # "start"
  /\ ballot.nav # "left"
  /\ ballot' = [ballot EXCEPT !.nav = "left"]
  /\ UNCHANGED notBallot

NextVote ==
  \/ \E authed \in BOOLEAN : BallotMount(authed)
  \/ \E active \in BOOLEAN : BallotElectionResolves(active)
  \/ \E voted \in BOOLEAN : BallotStatusResolves(voted)
  \/ BallotFetchRejects
  \/ \E c \in Candidates : Select(c)
  \/ HandleVote
  \/ CastResolves
  \/ CastRejects
  \/ BallotLeave

\* The election page does not use the hook: the hook stays as it starts.
InitVote ==
  /\ Init
  /\ draft = "hook"
  /\ props = [electionId |-> 1, token |-> TRUE, isElectionActive |-> TRUE]

SpecVote == InitVote /\ [][NextVote]_vars

\* ------------------------------------------------------------ AuthProvider
\* unnamed/part_001.  token and user are 0 for null; a profile is named by
\* the token it was fetched for.  pending holds the getProfile calls in
\* flight, one per fetchUser call, numbered in the order they were issued.
Tokens == {1, 2}

\* Every getProfile call a behaviour can issue.
ProfileCalls == [id : 0..MaxLogins, tok : Tokens]

notAuth == << hookVars, page, call, ballot >>

\* Children (the only callers of login and logout) are rendered unless the
\* provider shows its spinner.
ChildrenRendered == ~(auth.isLoading /\ auth.token = 0)

\* The mount effect: read sessionStorage; with a stored token set it and
\* fetch its profile, otherwise stop loading.
InitializeAuth(storedToken) ==
  /\ auth.pc = "start"
  /\ auth' = IF storedToken # 0
               THEN [auth EXCEPT !.pc = "ready", !.stored = storedToken,
                                 !.token = storedToken,
                                 !.pending = {[id |-> 0, tok |-> storedToken]}]
               ELSE [auth EXCEPT !.pc = "ready", !.stored = 0,
                                 !.isLoading = FALSE]
  /\ UNCHANGED notAuth

\* login(newToken) up to its await.
Login(newToken) ==
  /\ auth.pc = "ready"
  /\ ChildrenRendered
  /\ auth.logins < MaxLogins
  /\ auth' = [auth EXCEPT !.stored = newToken, !.token = newToken,
                          !.isLoading = TRUE,
                          !.pending = @ \cup {[id |-> auth.logins + 1,
                                               tok |-> newToken]},
                          !.logins = @ + 1]
  /\ UNCHANGED notAuth

Logout ==
  /\ auth.pc = "ready"
  /\ ChildrenRendered
  /\ auth' = [auth EXCEPT !.stored = 0, !.token = 0, !.user = 0]
  /\ UNCHANGED notAuth

\* getProfile resolved: fetchUser sets the user, and the caller that awaited
\* it (initializeAuth or login) stops loading.
ProfileResolves(f) ==
  /\ f \in auth.pending
  /\ auth' = [auth EXCEPT !.user = f.tok, !.isLoading = FALSE,
                          !.pending = @ \ {f}]
  /\ UNCHANGED notAuth

\* getProfile rejected: the catch of fetchUser logs out, then the caller
\* stops loading.
ProfileRejects(f) ==
  /\ f \in auth.pending
  /\ auth' = [auth EXCEPT !.token = 0, !.user = 0, !.stored = 0,
                          !.isLoading = FALSE, !.pending = @ \ {f}]
  /\ UNCHANGED notAuth

NextAuth ==
  \/ \E storedToken \in Tokens \cup {0} : InitializeAuth(storedToken)
  \/ \E newToken \in Tokens : Login(newToken)
  \/ Logout
  \/ \E f \in ProfileCalls : ProfileResolves(f)
  \/ \E f \in ProfileCalls : ProfileRejects(f)

InitAuth ==
  /\ Init
  /\ draft = "hook"
  /\ props = [electionId |-> 1, token |-> TRUE, isElectionActive |-> TRUE]

SpecAuth == InitAuth /\ [][NextAuth]_vars

\* ------------------------------------------------------------------ faults
\* A ReceiveResults payload that is not an array (an error object, say).
\* It is kept as a tagged tuple that no result set equals; Array.isArray is
\* the test for the tag.
Malformed == << [malformed |-> TRUE] >>

IsArray(data) == data # Malformed

\* handleReceiveResults of the enhanced draft on any payload: one that is
\* not an array is recorded as an error and the handler returns.
HandleReceiveResults(v, m, state, data) ==
  IF m /\ ~IsArray(data)
    THEN HandleError(v, m, "Results Update")
    ELSE ReceiveResultsEnhanced(v, m, state, data)

\* The server sends a payload that is not an array.  The handler of the
\* hook draft is the one that takes any payload.
PushMalformed(h) ==
  /\ CanReceive(subs[h])
  /\ pushes < MaxPush
  /\ pushes' = pushes + 1
  /\ lastPush' = Malformed
  /\ SetView(IF draft = "hook"
               THEN ReceiveResultsHook(view, Malformed)
               ELSE HandleReceiveResults(view, isMountedRef, subs[h].state,
                                         Malformed))
  /\ timers' = IF draft = "hook" \/ (isMountedRef /\ IsArray(Malformed))
                 THEN [timers EXCEPT ![h] = @ + 1] ELSE timers
  /\ UNCHANGED << draft, props, mounted, runs, subs, connectionRef,
                  isMountedRef, hasCleanup, drops, rapid, page, unhandled,
                  call, ballot, auth >>

\* The promise of the stop() the cleanup called rejects.  The hook draft
\* chains only .then on it; the enhanced draft chains .catch.
StopRejects(h) ==
  /\ subs[h].state = "Disconnecting"
  /\ subs[h].started
  /\ subs' = [subs EXCEPT ![h] = Idle([@ EXCEPT !.state = "Disconnected"])]
  /\ unhandled' = (unhandled \/ draft = "hook")
  /\ UNCHANGED << draft, props, mounted, runs, connectionRef, isMountedRef,
                  hasCleanup, view, timers, pushes, drops, lastPush, rapid,
                  page, call, ballot, auth >>

InitFaults == Init /\ props.token /\ props.isElectionActive

NextFaults ==
  \/ Mount
  \/ Unmount
  \/ Environment
  \/ \E h \in Runs : PushMalformed(h)
  \/ \E h \in Runs : StopRejects(h)

SpecFaults == InitFaults /\ [][NextFaults]_vars

\* ================================================================ claims
TimersPending == \E h \in Runs : timers[h] > 0

\* A ReceiveResults message is delivered in this step.
PushStep == pushes' = pushes + 1

\* The handler of a delivered message does not return early and React
\* keeps its state updates.
PushApplied == mounted /\ (draft = "hook" \/ isMountedRef)

\* ---------------------------------------------------------------------- C1
\* C1: while the current effect run was made with a token for an inactive
\* election, that run has built and started no hub, connectionRef is null,
\* the exposed status is disconnected and the run issued the HTTP snapshot
\* fetch.
C1_InactiveNeverConnects ==
  (runs >= 1 /\ mounted /\ props.token /\ ~props.isElectionActive) =>
     /\ subs[runs].state = "None"
     /\ connectionRef = 0
     /\ view.connectionStatus = "disconnected"
     /\ subs[runs].fetch \in {"pending", "done", "failed"}

\* An inactive election follows an active one whose hub is still closing,
\* and the snapshot of the inactive election has arrived.
C1_Witness ==
  /\ runs = 2 /\ mounted /\ props.token /\ ~props.isElectionActive
  /\ subs[1].state = "Disconnecting"
  /\ subs[2].fetch = "done"
  /\ view.results # << >>

\* ---------------------------------------------------------------------- C2
\* C2: at most one hub is connecting, connected or reconnecting, and when an
\* effect run builds a new hub every earlier hub has completed its close.
C2_PriorReleasedBeforeNew ==
  [][ /\ Cardinality({h \in Runs : Active(subs'[h])}) <= 1
      /\ (runs' = runs + 1 /\ subs'[runs'].state # "None") =>
            \A h \in 1..runs : subs'[h].state \in {"None", "Disconnected"}
    ]_vars

\* ---------------------------------------------------------------------- C3
\* Every hub that can still receive has had stop() called.
OnlyTornDownReceive ==
  \A h \in Runs : CanReceive(subs[h]) => subs[h].state = "Disconnecting"

OnlyCurrentReceives ==
  \A h \in Runs : CanReceive(subs[h]) => (h = connectionRef /\ IsCurrent(h))

\* C3: a ReceiveResults message delivered when every hub that can still
\* receive has had stop() called changes neither results nor isPulsing; one
\* delivered to the current hub sets isPulsing and the results.
C3_PushAfterTeardownDiscarded ==
  [][ /\ (PushStep /\ OnlyTornDownReceive) =>
            /\ view'.results = view.results
            /\ view'.isPulsing = view.isPulsing
      /\ (PushStep /\ OnlyCurrentReceives /\ PushApplied) =>
            /\ view'.results = lastPush'
            /\ view'.isPulsing
    ]_vars

\* ---------------------------------------------------------------------- C4
\* C4: after the watched election went 1 -> 2 -> 1, each change superseding
\* an open still in flight, the only hub that can be live is the one of the
\* last run, it is scoped to election 1 and it is the one in connectionRef;
\* no push that changes the results carries results of election 2.
C4_RapidChangeLeavesOne ==
  [][ rapid' = << 1, 2, 1 >> =>
        /\ \A h \in Runs : Active(subs'[h]) => h = runs'
        /\ \A h \in Runs : CanReceive(subs'[h]) => h = runs'
        /\ subs'[runs'].eid = 1
        /\ mounted' => connectionRef' = runs'
        /\ (PushStep /\ view'.results # view.results) =>
              ElectionOf(view'.results) = 1
    ]_vars

\* At rest after 1 -> 2 -> 1: both superseded hubs are closed, the hub of
\* election 1 is connected and a push of it is shown.
C4_Witness ==
  /\ rapid = << 1, 2, 1 >>
  /\ mounted
  /\ subs[1].state = "Disconnected" /\ subs[2].state = "Disconnected"
  /\ subs[3].state = "Connected"
  /\ pushes > 0 /\ view.results = lastPush

\* ---------------------------------------------------------------------- C5
\* C5: a snapshot fetch that settles when its effect run is no longer the
\* current one leaves the exposed results as they are.
C5_StaleSnapshotDiscarded ==
  [][ \A r \in Runs :
        (subs[r].fetch = "pending" /\ subs'[r].fetch = "done" /\ ~IsCurrent(r))
          => view'.results = view.results
    ]_vars

\* ---------------------------------------------------------------------- C6
\* C6: when the current hub drops while the status is connected the status
\* becomes reconnecting, it stays reconnecting until the reconnect succeeds
\* and is connected then; once the setup that follows a reconnect is over,
\* both JoinElectionGroup and GetLiveResults have been invoked.
C6_ReconnectSequence ==
  [][ (mounted /\ mounted' /\ runs' = runs /\ connectionRef # 0) =>
        LET h == connectionRef IN
        /\ (subs[h].state = "Connected" /\ subs'[h].state = "Reconnecting"
              /\ view.connectionStatus = "connected")
             => view'.connectionStatus = "reconnecting"
        /\ (subs[h].state = "Reconnecting" /\ subs'[h].state = "Reconnecting"
              /\ view.connectionStatus = "reconnecting")
             => view'.connectionStatus = "reconnecting"
        /\ (subs[h].state = "Reconnecting" /\ subs'[h].state = "Connected"
              /\ view.connectionStatus = "reconnecting")
             => view'.connectionStatus = "connected"
        /\ (subs'[h].state = "Connected" /\ subs'[h].origin = "reconnect"
              /\ subs'[h].pc = "idle")
             => subs'[h].setup = {"Join", "Get"}
    ]_vars

\* ---------------------------------------------------------------------- C7
\* C7: a push that is applied leaves exactly the pushed set as the results
\* and isPulsing true, both in the state that follows the push.
C7_PushReplacesWholesale ==
  [][ (PushStep /\ PushApplied) =>
        /\ view'.results = lastPush'
        /\ view'.isPulsing
    ]_vars

\* A push replaced results that came from another payload.
C7_Witness ==
  /\ pushes = 2 /\ mounted
  /\ view.results = lastPush
  /\ view.isPulsing
  /\ view.results = << VoteResult(1, 5, 7500), VoteResult(2, 1, 2500) >>

\* ---------------------------------------------------------------------- C8
\* Percentage of n votes out of total, in hundredths of a percent, rounded.
Percentage(n, total) ==
  IF total = 0 THEN 0 ELSE (n * 20000 + total) \div (2 * total)

\* C8: every percentage of the exposed results, and of the chart data made
\* of them, is the one computed from the vote counts of the exposed set.
C8_PercentageRecomputed ==
  LET total == TotalVotes(view.results)
      chart == ChartData(view.results)
  IN /\ \A i \in 1..Len(view.results) :
          view.results[i].percentage =
            Percentage(view.results[i].voteCount, total)
     /\ \A i \in 1..Len(chart) :
          chart[i].percentage = Percentage(chart[i].votes, total)

\* ---------------------------------------------------------------------- C9
RECURSIVE SumPercentage(_)
SumPercentage(results) ==
  IF results = << >> THEN 0
  ELSE Head(results).percentage + SumPercentage(Tail(results))

\* C9: the percentages of the exposed results sum to 100 (within one
\* hundredth per entry) when votes were cast and are all 0 when none were.
C9_PercentagesSumTo100 ==
  LET total == TotalVotes(view.results)
      sum == SumPercentage(view.results)
  IN IF total > 0
       THEN /\ sum >= 10000 - Len(view.results)
            /\ sum <= 10000 + Len(view.results)
       ELSE \A i \in 1..Len(view.results) : view.results[i].percentage = 0

\* --------------------------------------------------------------------- C10
\* C10: while the pulse timeout of an applied push is pending (its window
\* has not elapsed), isPulsing is true.
C10_PulseLastsFullWindow ==
  (mounted /\ TimersPending) => view.isPulsing

\* --------------------------------------------------------------------- C11
\* C11: when the poll interval elapses while the election is active and the
\* exposed status is disconnected, a fetch of the results snapshot is issued.
C11_PollFetchesSnapshot ==
  [][ (page'.ticks = page.ticks + 1 /\ page.election = "active"
         /\ view.connectionStatus = "disconnected")
        => \E r \in Runs : subs[r].fetch # "pending" /\ subs'[r].fetch = "pending"
    ]_vars

\* --------------------------------------------------------------------- C12
\* C12: a hub that is no longer the current handle (the consumer unmounted,
\* or the effect ran again) is never connecting, connected or reconnecting,
\* and one whose start() had not resolved when it was torn down has joined
\* no group and requested no results.
C12_TeardownClosesHandle ==
  \A h \in Runs :
    (subs[h].state # "None" /\ (~mounted \/ h # connectionRef)) =>
       /\ ~Active(subs[h])
       /\ ~subs[h].started => (subs[h].setup = {} /\ subs[h].pc = "idle")

\* The consumer unmounted while start() of its hub was still pending.
C12_Witness ==
  /\ ~mounted
  /\ runs = 1
  /\ subs[1].state = "Disconnecting"
  /\ ~subs[1].started

\* --------------------------------------------------------------------- C13
\* C13: when stop() is called on a connected hub, LeaveElectionGroup has
\* been invoked on it first (setup holds the hub methods invoked on the hub
\* since it connected).
C13_LeaveBeforeStop ==
  [][ \A h \in Runs :
        (subs[h].state = "Connected" /\ subs'[h].state = "Disconnecting")
          => "Leave" \in subs'[h].setup
    ]_vars

\* --------------------------------------------------------------------- C14
\* C14: once the setup that follows a successful start() is over and the hub
\* is still connected, both JoinElectionGroup and GetLiveResults have been
\* invoked on it, whatever the outcome of the join.
C14_StartJoinsAndRequests ==
  \A h \in Runs :
    (subs[h].state = "Connected" /\ subs[h].origin = "start"
       /\ subs[h].pc = "idle")
      => subs[h].setup = {"Join", "Get"}

\* --------------------------------------------------------------------- C15
\* C15: the exposed connectionStatus is connected, reconnecting or
\* disconnected, from the first render on.
C15_ConnectingNeverExposed ==
  view.connectionStatus \in {"connected", "reconnecting", "disconnected"}

\* --------------------------------------------------------------------- C16
\* C16: within the first subscription of a mounted consumer, the exposed
\* status is connected whenever its hub is connected.
C16_StatusMirrorsTransport ==
  (mounted /\ runs = 1 /\ connectionRef = 1 /\ subs[1].state = "Connected")
    => view.connectionStatus = "connected"

\* --------------------------------------------------------------------- C17
\* C17: a delivered payload that is not an array changes neither the
\* exposed results nor isPulsing.
C17_MalformedPushDiscarded ==
  [][ (PushStep /\ lastPush' = Malformed) =>
        /\ view'.results = view.results
        /\ view'.isPulsing = view.isPulsing
    ]_vars

\* --------------------------------------------------------------------- C18
\* C18: no failure of the transport leaves a rejected promise without a
\* handler.
C18_FailuresContained == ~unhandled

\* --------------------------------------------------------------------- C19
\* C19: while the snapshot fetch of the current effect run has failed, the
\* consumer is shown the snapshot failure, whatever the live channel did
\* since.
C19_SnapshotFailureKept ==
  (mounted /\ runs >= 1 /\ subs[runs].fetch = "failed")
    => view.error = "Initial Data Fetch"

SubState ==
  IF ~mounted \/ connectionRef = 0 THEN "Idle"
  ELSE IF subs[connectionRef].state = "Connecting" THEN "Opening"
  ELSE CASE view.connectionStatus = "connected" -> "Open"
         [] view.connectionStatus = "reconnecting" -> "Reconnecting"
         [] OTHER -> "Disconnected"

AllowedTransitions ==
  { << "Idle", "Opening" >>, << "Opening", "Open" >>,
    << "Opening", "Disconnected" >>, << "Open", "Reconnecting" >>,
    << "Reconnecting", "Open" >>, << "Reconnecting", "Disconnected" >> }

\* C22: the subscription starts Idle; a step either leaves its state alone,
\* takes one of the listed transitions, or is a teardown, which ends Idle
\* or, when the effect runs again at once, Opening.
C22_OnlyListedTransitions ==
  [][ /\ runs = 0 => SubState = "Idle"
      /\ \/ SubState' = SubState
         \/ << SubState, SubState' >> \in AllowedTransitions
         \/ SubState' = "Idle" /\ (~mounted' \/ runs' # runs)
         \/ SubState' = "Opening" /\ runs' # runs
    ]_vars

\* --------------------------------------------------------------------- C23
\* The entries of rs in the order given by the permutation p.
Reorder(rs, p) == [i \in 1..Len(rs) |-> rs[p[i]]]

\* C23: the chart data made of the exposed results, and with it the leader
\* in its first place, is the same for every order in which the entries of
\* the payload could have arrived.
C23_RankingOrderIndependent ==
  \A p \in Permutations(1..Len(view.results)) :
    ChartData(Reorder(view.results, p)) = ChartData(view.results)

\* --------------------------------------------------------------------- C24
\* C24: the election page issues a castVote request only while hasVoted is
\* false, no castVote request is in flight and none has succeeded.
C24_NoSecondVote ==
  [][ ballot'.issued = ballot.issued + 1 =>
        /\ ~ballot.hasVoted
        /\ ballot.inFlight = 0
        /\ ballot.succeeded = 0
    ]_vars

\* A first castVote failed, the retry succeeded and the page still shows.
C24_Witness ==
  /\ ballot.issued = 2
  /\ ballot.succeeded = 1
  /\ ballot.hasVoted
  /\ ballot.nav = "pushed"

\* --------------------------------------------------------------------- C25
\* C25: the auto-refresh interval exists only while the page is mounted,
\* the election is active and the exposed status is disconnected.
C25_TimerOnlyWhenDisconnected ==
  IntervalArmed =>
    /\ mounted
    /\ page.election = "active"
    /\ view.connectionStatus = "disconnected"

\* --------------------------------------------------------------------- C26
\* C26: no step of a getResults call changes the exposed results, and a
\* call made when the hub in connectionRef was missing or not connected, or
\* whose invoke failed, returns what the HTTP fallback gave: the fetched
\* snapshot, or the empty list when the fetch failed or there is no token.
C26_GetResultsFallsBack ==
  [][ call' # call =>
        /\ view'.results = view.results
        /\ (call'.pc = "returned" /\ ~call'.conn) => ~call'.live
        /\ (call'.pc = "returned" /\ ~call'.live) =>
              /\ call'.http = call'.token
              /\ ~call'.token => call'.ret = << >>
              /\ call'.ret # << >> => call'.ret \in ServerResults(call'.eid)
    ]_vars

\* With a token and a hub that was still connecting, the invoke failed and
\* the fallback returned the snapshot.
C26_Witness ==
  /\ call.pc = "returned"
  /\ call.hub # 0 /\ ~call.conn
  /\ call.http /\ ~call.live
  /\ call.ret # << >>

\* --------------------------------------------------------------------- C27
\* C27: a step in which a hub that is not the current handle changes state
\* (its start() settles, it reconnects, it closes) leaves the exposed
\* status and error as they are.
C27_StaleHandleSilent ==
  [][ (mounted /\ runs' = runs) =>
        \A h \in Runs :
          (h # connectionRef /\ subs'[h].state # subs[h].state) =>
             /\ view'.connectionStatus = view.connectionStatus
             /\ view'.error = view.error
    ]_vars

\* --------------------------------------------------------------------- C28
\* C28: within the first subscription, once a push has been applied the
\* exposed results change only in a step that delivers a push.
C28_SnapshotAfterPushIgnored ==
  [][ (runs = 1 /\ runs' = 1 /\ mounted /\ pushes > 0
         /\ view.results = lastPush /\ ~PushStep)
        => view'.results = view.results
    ]_vars

\* --------------------------------------------------------------------- C29
\* C29: once the effect has run, the exposed results are empty or belong to
\* the election being watched, and they are empty without a token.
C29_NoResultsOfOtherElection ==
  (mounted /\ runs >= 1 /\ view.results # << >>) =>
     /\ props.token
     /\ ElectionOf(view.results) = props.electionId

\* --------------------------------------------------------------------- C30
\* C30: in AuthProvider a user is never exposed without a token, and a
\* profile fetch that fails never clears a token other than the one it was
\* issued for.
C30_UserImpliesToken ==
  [][ /\ auth'.user # 0 => auth'.token # 0
      /\ \A f \in auth.pending :
           (auth' = [auth EXCEPT !.token = 0, !.user = 0, !.stored = 0,
                                 !.isLoading = FALSE, !.pending = @ \ {f}]
              /\ auth.token # 0 /\ f.tok # auth.token)
           => auth'.token = auth.token
    ]_vars

====
